---- MODULE Spec2Model ----
(* Model of static/js/cors-fixer.js: the two image probes of window.imageUtils, *)
(* checkImageExists(url, callback, timeout) and preloadImage(url, timeout),    *)
(* running on the single-threaded event loop of the page.                      *)
EXTENDS Integers, Sequences, FiniteSets, TLC

(* ---------------------------------------------------------------- bounds *)
MaxProbes == 2

Probes == 1..MaxProbes
URLs == {"a.png", "b.png"}
\* the optional trailing `timeout` argument: absent, or a number of milliseconds
TimeoutArgs == {<<>>, <<-1>>, <<0>>, <<100>>}

DefaultTimeout == 5000

VARIABLES
    n,        \* number of probes started so far (calls made to either function)
    pc,       \* the call currently on the stack: [p, at, timeout], at = "idle" when the stack is empty
    op,       \* op[p]: which function created probe p
    url,      \* url[p]: the `url` parameter captured by the closures of probe p
    img,      \* img[p]: the Image object of probe p
    timer,    \* timer[p]: the timer returned by setTimeout, [state, remaining]
    calls,    \* calls[p]: the arguments `callback` was invoked with, in order
    warns,    \* warns[p]: the console.warn messages emitted by probe p's closures, in order
    promise,  \* promise[p]: the promise returned by preloadImage, [state, value]
    hist      \* hist[p]: the event-loop tasks of probe p that have run, in order

vars == <<n, pc, op, url, img, timer, calls, warns, promise, hist>>

Idle == [p |-> 0, at |-> "idle", timeout |-> 0]

NoImage == [state |-> "none", onload |-> FALSE, onerror |-> FALSE, crossOrigin |-> "", src |-> ""]
NoTimer == [state |-> "none", remaining |-> 0]
NoPromise == [state |-> "none", value |-> <<>>]

Init ==
    /\ n = 0
    /\ pc = Idle
    /\ op = [p \in Probes |-> "none"]
    /\ url = [p \in Probes |-> ""]
    /\ img = [p \in Probes |-> NoImage]
    /\ timer = [p \in Probes |-> NoTimer]
    /\ calls = [p \in Probes |-> <<>>]
    /\ warns = [p \in Probes |-> <<>>]
    /\ promise = [p \in Probes |-> NoPromise]
    /\ hist = [p \in Probes |-> <<>>]

(* ------------------------------------------------------ platform helpers *)
\* `timeout = 5000` default parameter
DefaultParam(args) == IF args = <<>> THEN DefaultTimeout ELSE args[1]

\* new Image(): no handlers, no crossOrigin, no src, nothing loading
NewImage == [state |-> "new", onload |-> FALSE, onerror |-> FALSE, crossOrigin |-> "", src |-> ""]

\* setTimeout(fn, delay): a pending timer; a negative delay counts as 0
SetTimeout(delay) == [state |-> "pending", remaining |-> IF delay < 0 THEN 0 ELSE delay]

\* clearTimeout on a timer handle that all probes would share
ClearTimeoutShared(tm, p) ==
    [q \in DOMAIN tm |-> IF tm[q].state = "pending" THEN [tm[q] EXCEPT !.state = "cleared"] ELSE tm[q]]

\* clearTimeout(timer) of probe p: cancels it if it is still pending, else no effect
ClearTimeout(tm, p) ==
    [tm EXCEPT ![p] = IF @.state = "pending" THEN [@ EXCEPT !.state = "cleared"] ELSE @]

\* resolve(v) that would overwrite a settled promise
PromiseResolveUnguarded(pr, v) == [state |-> "fulfilled", value |-> v]

\* resolve(v) of a promise: only a pending promise changes
PromiseResolve(pr, v) ==
    IF pr.state = "pending" THEN [state |-> "fulfilled", value |-> v] ELSE pr

\* reject(e) that would overwrite a settled promise
PromiseRejectUnguarded(pr, e) == [state |-> "rejected", value |-> e]

\* reject(e) of a promise: only a pending promise changes
PromiseReject(pr, e) ==
    IF pr.state = "pending" THEN [state |-> "rejected", value |-> e] ELSE pr

\* template literal `${prefix}${url}`
Msg(prefix, u) == <<prefix, u>>

(* --------------------------------------------------- the event-loop tasks *)
\* A task (a timer callback, an image event) starts only when the call stack is empty
StackEmpty == pc.at = "idle"

\* callback(v) of probe p
Callback(p, v) == calls' = [calls EXCEPT ![p] = Append(@, v)]

\* console.warn(m) from a closure of probe p
ConsoleWarn(p, m) == warns' = [warns EXCEPT ![p] = Append(@, m)]

\* timeout callback that would only log
CheckTimeoutHandlerSilent(p) ==
    /\ ConsoleWarn(p, Msg("Image check timeout: ", url[p]))
    /\ UNCHANGED <<calls, promise>>

\* checkImageExists: the arrow function given to setTimeout
CheckTimeoutHandler(p) ==
    /\ ConsoleWarn(p, Msg("Image check timeout: ", url[p]))
    /\ Callback(p, FALSE)
    /\ UNCHANGED promise

\* img.onload that would leave the timer running
CheckOnloadNoClear(p) ==
    /\ UNCHANGED timer
    /\ Callback(p, TRUE)
    /\ UNCHANGED <<warns, promise>>

\* checkImageExists: img.onload
CheckOnload(p) ==
    /\ timer' = ClearTimeout(timer, p)
    /\ Callback(p, TRUE)
    /\ UNCHANGED <<warns, promise>>

\* img.onerror that would leave the timer running
CheckOnerrorNoClear(p) ==
    /\ UNCHANGED timer
    /\ ConsoleWarn(p, Msg("Image failed to load: ", url[p]))
    /\ Callback(p, FALSE)
    /\ UNCHANGED promise

\* checkImageExists: img.onerror
CheckOnerror(p) ==
    /\ timer' = ClearTimeout(timer, p)
    /\ ConsoleWarn(p, Msg("Image failed to load: ", url[p]))
    /\ Callback(p, FALSE)
    /\ UNCHANGED promise

\* preloadImage: the arrow function given to setTimeout
PreloadTimeoutHandler(p) ==
    /\ ConsoleWarn(p, Msg("Image load timeout: ", url[p]))
    /\ promise' = [promise EXCEPT ![p] = PromiseReject(@, Msg("Image load timeout: ", url[p]))]
    /\ UNCHANGED calls

\* img.onload that would leave the timer running
PreloadOnloadNoClear(p) ==
    /\ UNCHANGED timer
    /\ promise' = [promise EXCEPT ![p] = PromiseResolve(@, url[p])]
    /\ UNCHANGED <<warns, calls>>

\* preloadImage: img.onload
PreloadOnload(p) ==
    /\ timer' = ClearTimeout(timer, p)
    /\ promise' = [promise EXCEPT ![p] = PromiseResolve(@, url[p])]
    /\ UNCHANGED <<warns, calls>>

\* preloadImage: img.onerror
PreloadOnerror(p) ==
    /\ timer' = ClearTimeout(timer, p)
    /\ ConsoleWarn(p, Msg("Failed to load image: ", url[p]))
    /\ promise' = [promise EXCEPT ![p] = PromiseReject(@, Msg("Failed to load image: ", url[p]))]
    /\ UNCHANGED calls

\* The timer of probe p expires and its callback runs to completion
TimerFire(p) ==
    /\ StackEmpty
    /\ timer[p].state = "pending"
    /\ timer[p].remaining = 0
    /\ timer' = [timer EXCEPT ![p].state = "fired"]
    /\ IF op[p] = "checkImageExists" THEN CheckTimeoutHandler(p) ELSE PreloadTimeoutHandler(p)
    /\ hist' = [hist EXCEPT ![p] = Append(@, "timeout")]
    /\ UNCHANGED <<n, pc, op, url, img>>

\* The load of probe p's image succeeds: the load event is dispatched to img.onload
ImageLoadEvent(p) ==
    /\ StackEmpty
    /\ img[p].state = "loading"
    /\ img' = [img EXCEPT ![p].state = "loaded"]
    /\ IF ~img[p].onload THEN UNCHANGED <<timer, calls, warns, promise>>
       ELSE IF op[p] = "checkImageExists" THEN CheckOnload(p) ELSE PreloadOnload(p)
    /\ hist' = [hist EXCEPT ![p] = Append(@, "load")]
    /\ UNCHANGED <<n, pc, op, url>>

\* The load of probe p's image fails: the error event is dispatched to img.onerror
ImageErrorEvent(p) ==
    /\ StackEmpty
    /\ img[p].state = "loading"
    /\ img' = [img EXCEPT ![p].state = "broken"]
    /\ IF ~img[p].onerror THEN UNCHANGED <<timer, calls, warns, promise>>
       ELSE IF op[p] = "checkImageExists" THEN CheckOnerror(p) ELSE PreloadOnerror(p)
    /\ hist' = [hist EXCEPT ![p] = Append(@, "error")]
    /\ UNCHANGED <<n, pc, op, url>>

\* Time passes, up to the next deadline of a pending timer
PendingDelays == {timer[p].remaining : p \in {q \in Probes : timer[q].state = "pending" /\ timer[q].remaining > 0}}

Min(S) == CHOOSE x \in S : \A y \in S : x <= y

Tick ==
    /\ StackEmpty
    /\ PendingDelays # {}
    /\ timer' = [p \in Probes |->
                   IF timer[p].state = "pending" /\ timer[p].remaining > 0
                   THEN [timer[p] EXCEPT !.remaining = @ - Min(PendingDelays)]
                   ELSE timer[p]]
    /\ UNCHANGED <<n, pc, op, url, img, calls, warns, promise, hist>>

(* ------------------------------------------- checkImageExists, by statement *)
\* A statement of the running call of function f, at position `at`
Running(f, at) == pc.at = at /\ op[pc.p] = f

Goto(at) == pc' = [pc EXCEPT !.at = at]

\* checkImageExists(url, callback, timeout = 5000) is called; const img = new Image()
CheckImageExists(u, args) ==
    /\ StackEmpty
    /\ n < MaxProbes
    /\ n' = n + 1
    /\ op' = [op EXCEPT ![n + 1] = "checkImageExists"]
    /\ url' = [url EXCEPT ![n + 1] = u]
    /\ img' = [img EXCEPT ![n + 1] = NewImage]
    /\ pc' = [p |-> n + 1, at |-> "setTimeout", timeout |-> DefaultParam(args)]
    /\ UNCHANGED <<timer, calls, warns, promise, hist>>

\* setTimeout that would run the callback at once when the delay is not positive
CheckSetTimeoutSync ==
    /\ Running("checkImageExists", "setTimeout")
    /\ IF pc.timeout <= 0
       THEN /\ timer' = [timer EXCEPT ![pc.p] = [state |-> "fired", remaining |-> 0]]
            /\ CheckTimeoutHandler(pc.p)
            /\ hist' = [hist EXCEPT ![pc.p] = Append(@, "timeout")]
       ELSE /\ timer' = [timer EXCEPT ![pc.p] = SetTimeout(pc.timeout)]
            /\ UNCHANGED <<calls, warns, promise, hist>>
    /\ Goto("onload")
    /\ UNCHANGED <<n, op, url, img>>

\* const timer = setTimeout(() => {...}, timeout)
CheckSetTimeout ==
    /\ Running("checkImageExists", "setTimeout")
    /\ timer' = [timer EXCEPT ![pc.p] = SetTimeout(pc.timeout)]
    /\ Goto("onload")
    /\ UNCHANGED <<n, op, url, img, calls, warns, promise, hist>>

\* img.onload = function() {...}
CheckSetOnload ==
    /\ Running("checkImageExists", "onload")
    /\ img' = [img EXCEPT ![pc.p].onload = TRUE]
    /\ Goto("onerror")
    /\ UNCHANGED <<n, op, url, timer, calls, warns, promise, hist>>

\* img.onerror = function() {...}
CheckSetOnerror ==
    /\ Running("checkImageExists", "onerror")
    /\ img' = [img EXCEPT ![pc.p].onerror = TRUE]
    /\ Goto("crossOrigin")
    /\ UNCHANGED <<n, op, url, timer, calls, warns, promise, hist>>

\* img.src = url written where img.crossOrigin = "anonymous" belongs
CheckSetCrossOriginAfterSrc ==
    /\ Running("checkImageExists", "crossOrigin")
    /\ img' = [img EXCEPT ![pc.p].src = url[pc.p], ![pc.p].state = "loading"]
    /\ Goto("src")
    /\ UNCHANGED <<n, op, url, timer, calls, warns, promise, hist>>

\* img.crossOrigin = "anonymous"
CheckSetCrossOrigin ==
    /\ Running("checkImageExists", "crossOrigin")
    /\ img' = [img EXCEPT ![pc.p].crossOrigin = "anonymous"]
    /\ Goto("src")
    /\ UNCHANGED <<n, op, url, timer, calls, warns, promise, hist>>

\* img.src = url: the load starts; its load or error event comes as a later task
CheckSetSrc ==
    /\ Running("checkImageExists", "src")
    /\ img' = [img EXCEPT ![pc.p].src = url[pc.p], ![pc.p].state = "loading"]
    /\ Goto("return")
    /\ UNCHANGED <<n, op, url, timer, calls, warns, promise, hist>>

\* checkImageExists returns (undefined); the stack is empty again
CheckReturn ==
    /\ Running("checkImageExists", "return")
    /\ pc' = Idle
    /\ UNCHANGED <<n, op, url, img, timer, calls, warns, promise, hist>>

(* ----------------------------------------------- preloadImage, by statement *)
\* preloadImage(url, timeout = 5000) is called; new Promise(executor); const img = new Image()
PreloadImage(u, args) ==
    /\ StackEmpty
    /\ n < MaxProbes
    /\ n' = n + 1
    /\ op' = [op EXCEPT ![n + 1] = "preloadImage"]
    /\ url' = [url EXCEPT ![n + 1] = u]
    /\ promise' = [promise EXCEPT ![n + 1] = [state |-> "pending", value |-> <<>>]]
    /\ img' = [img EXCEPT ![n + 1] = NewImage]
    /\ pc' = [p |-> n + 1, at |-> "setTimeout", timeout |-> DefaultParam(args)]
    /\ UNCHANGED <<timer, calls, warns, hist>>

\* const timer = setTimeout(() => {...}, timeout)
PreloadSetTimeout ==
    /\ Running("preloadImage", "setTimeout")
    /\ timer' = [timer EXCEPT ![pc.p] = SetTimeout(pc.timeout)]
    /\ Goto("onload")
    /\ UNCHANGED <<n, op, url, img, calls, warns, promise, hist>>

\* img.onload = () => {...}
PreloadSetOnload ==
    /\ Running("preloadImage", "onload")
    /\ img' = [img EXCEPT ![pc.p].onload = TRUE]
    /\ Goto("onerror")
    /\ UNCHANGED <<n, op, url, timer, calls, warns, promise, hist>>

\* img.onerror = () => {...}
PreloadSetOnerror ==
    /\ Running("preloadImage", "onerror")
    /\ img' = [img EXCEPT ![pc.p].onerror = TRUE]
    /\ Goto("crossOrigin")
    /\ UNCHANGED <<n, op, url, timer, calls, warns, promise, hist>>

\* img.crossOrigin = "anonymous"
PreloadSetCrossOrigin ==
    /\ Running("preloadImage", "crossOrigin")
    /\ img' = [img EXCEPT ![pc.p].crossOrigin = "anonymous"]
    /\ Goto("src")
    /\ UNCHANGED <<n, op, url, timer, calls, warns, promise, hist>>

\* img.src = url: the load starts; its load or error event comes as a later task
PreloadSetSrc ==
    /\ Running("preloadImage", "src")
    /\ img' = [img EXCEPT ![pc.p].src = url[pc.p], ![pc.p].state = "loading"]
    /\ Goto("return")
    /\ UNCHANGED <<n, op, url, timer, calls, warns, promise, hist>>

\* the executor ends and preloadImage returns the promise; the stack is empty again
PreloadReturn ==
    /\ Running("preloadImage", "return")
    /\ pc' = Idle
    /\ UNCHANGED <<n, op, url, img, timer, calls, warns, promise, hist>>

(* ------------------------------------------------------------ specification *)
Next ==
    \/ \E u \in URLs, args \in TimeoutArgs : CheckImageExists(u, args)
    \/ CheckSetTimeout
    \/ CheckSetOnload
    \/ CheckSetOnerror
    \/ CheckSetCrossOrigin
    \/ CheckSetSrc
    \/ CheckReturn
    \/ \E u \in URLs, args \in TimeoutArgs : PreloadImage(u, args)
    \/ PreloadSetTimeout
    \/ PreloadSetOnload
    \/ PreloadSetOnerror
    \/ PreloadSetCrossOrigin
    \/ PreloadSetSrc
    \/ PreloadReturn
    \/ \E p \in Probes : TimerFire(p)
    \/ \E p \in Probes : ImageLoadEvent(p)
    \/ \E p \in Probes : ImageErrorEvent(p)
    \/ Tick

Spec == Init /\ [][Next]_vars

\* The running call goes on to its next statement
CallStep ==
    \/ CheckSetTimeout \/ CheckSetOnload \/ CheckSetOnerror
    \/ CheckSetCrossOrigin \/ CheckSetSrc \/ CheckReturn
    \/ PreloadSetTimeout \/ PreloadSetOnload \/ PreloadSetOnerror
    \/ PreloadSetCrossOrigin \/ PreloadSetSrc \/ PreloadReturn

\* The event loop: a call on the stack runs to completion, time passes, and an
\* expired timer's callback is eventually run. Nothing makes an image load end.
FairSpec ==
    /\ Spec
    /\ WF_vars(CallStep)
    /\ WF_vars(Tick)
    /\ \A p \in Probes : WF_vars(TimerFire(p))

(* ------------------------------------------------------------------ claims *)
Started(p) == op[p] # "none"
IsCheck(p) == op[p] = "checkImageExists"
IsPreload(p) == op[p] = "preloadImage"
Settled(p) == promise[p].state \in {"fulfilled", "rejected"}
Reported(p) == calls[p] # <<>> \/ Settled(p)
First(p) == IF hist[p] = <<>> THEN "none" ELSE hist[p][1]

\* C1: the callback of a checkImageExists probe is invoked at most once, whatever
\* the order of its load event, error event and timeout.
C1_CallbackAtMostOnce ==
    \A p \in Probes : IsCheck(p) => Len(calls[p]) <= 1

\* C2: once a preloadImage promise is fulfilled or rejected, its state and value
\* never change (a late load does not fulfil it, a late error does not reject it again).
C2_SettlesOnce ==
    [][\A p \in Probes : Settled(p) => promise'[p] = promise[p]]_vars

\* C2 witness: a promise rejected by the timeout has since seen its late load
\* event, and another its late error event.
C2_Witness ==
    \E p, q \in Probes :
        /\ IsPreload(p) /\ hist[p] = <<"timeout", "load">> /\ promise[p].state = "rejected"
        /\ IsPreload(q) /\ hist[q] = <<"timeout", "error">> /\ promise[q].state = "rejected"

\* C3: when the load event comes first, checkImageExists has invoked the callback
\* exactly once, with true, and preloadImage is fulfilled with the url passed in.
C3_LoadFirst ==
    \A p \in Probes : First(p) = "load" =>
        /\ IsCheck(p) => calls[p] = <<TRUE>>
        /\ IsPreload(p) => promise[p] = [state |-> "fulfilled", value |-> url[p]]

\* C3 witness: a probe of each kind whose load event came first.
C3_Witness ==
    \E p, q \in Probes :
        /\ IsCheck(p) /\ First(p) = "load" /\ calls[p] = <<TRUE>>
        /\ IsPreload(q) /\ First(q) = "load" /\ promise[q].state = "fulfilled"

\* C4: when the error event comes first, checkImageExists has invoked the callback
\* exactly once, with false, and preloadImage is rejected (once: the promise
\* holds the rejection of the error handler).
C4_ErrorFirst ==
    \A p \in Probes : First(p) = "error" =>
        /\ IsCheck(p) => calls[p] = <<FALSE>>
        /\ IsPreload(p) => /\ promise[p].state = "rejected"
                           /\ promise[p].value[1] = "Failed to load image: "

\* C4 witness: a probe of each kind whose error event came first.
C4_Witness ==
    \E p, q \in Probes :
        /\ IsCheck(p) /\ First(p) = "error" /\ calls[p] = <<FALSE>>
        /\ IsPreload(q) /\ First(q) = "error" /\ promise[q].state = "rejected"

TimeoutPrefixes == {"Image check timeout: ", "Image load timeout: "}
TimeoutReported(p) ==
    \/ \E i \in 1..Len(warns[p]) : warns[p][i][1] \in TimeoutPrefixes
    \/ promise[p].state = "rejected" /\ promise[p].value[1] \in TimeoutPrefixes

\* C5: with a fair timer every started probe eventually reports an outcome, even
\* if its image never fires an event, and a timeout outcome is reported only once
\* the probe's timer has fired (its delay elapsed).
C5_EventuallyReported ==
    /\ [](\A p \in Probes :
            TimeoutReported(p) => timer[p].state = "fired" /\ timer[p].remaining = 0)
    /\ \A p \in Probes : Started(p) ~> Reported(p)

\* C5 witness: a probe of each kind has reported its timeout while its image is
\* still loading.
C5_Witness ==
    \E p, q \in Probes :
        /\ IsCheck(p) /\ hist[p] = <<"timeout">> /\ img[p].state = "loading"
        /\ calls[p] = <<FALSE>>
        /\ IsPreload(q) /\ hist[q] = <<"timeout">> /\ img[q].state = "loading"
        /\ promise[q].state = "rejected"

\* C6: once a load or error event of a probe has been handled, the probe's timer
\* is not pending and its timeout handler does not run afterwards.
C6_NoTimerAfterEvent ==
    \A p \in Probes : \A i \in 1..Len(hist[p]) :
        hist[p][i] \in {"load", "error"} =>
            /\ timer[p].state # "pending"
            /\ \A j \in (i + 1)..Len(hist[p]) : hist[p][j] # "timeout"

\* C6 witness: a load event of one probe and an error event of another each
\* cancelled a timer that was still pending.
C6_Witness ==
    \E p, q \in Probes :
        /\ IsPreload(p) /\ hist[p] = <<"load">> /\ timer[p].state = "cleared"
        /\ IsCheck(q) /\ hist[q] = <<"error">> /\ timer[q].state = "cleared"

\* C7: a probe has emitted exactly one warning if its outcome (its first event)
\* is an error or a timeout and none if it is a load, later events included.
C7_WarnIffFailure ==
    \A p \in Probes : First(p) # "none" =>
        Len(warns[p]) = IF First(p) = "load" THEN 0 ELSE 1

\* C8: a rejected preloadImage promise carries the timeout message with the url
\* iff the timer fired first, and the failed-to-load message with the url iff
\* the error event came first.
C8_RejectionReason ==
    \A p \in Probes : IsPreload(p) =>
        /\ promise[p] = [state |-> "rejected", value |-> Msg("Image load timeout: ", url[p])]
              <=> First(p) = "timeout"
        /\ promise[p] = [state |-> "rejected", value |-> Msg("Failed to load image: ", url[p])]
              <=> First(p) = "error"

\* C8 witness: one promise rejected by the timeout and one by the error event,
\* each having seen a later event of the other kind or a late load.
C8_Witness ==
    \E p, q \in Probes :
        /\ IsPreload(p) /\ hist[p] = <<"timeout", "error">>
        /\ promise[p].value = Msg("Image load timeout: ", url[p])
        /\ IsPreload(q) /\ hist[q] = <<"error">>
        /\ promise[q].value = Msg("Failed to load image: ", url[q])

\* C9: a task of one probe leaves the callback log, promise, timer, warnings and
\* image of every other probe unchanged; a new probe starts with no result; and
\* what a probe has reported follows from its own events alone.
OwnEventsOnly(p) ==
    /\ IsCheck(p) => Len(calls[p]) = Len(hist[p])
    /\ IsPreload(p) => (Settled(p) <=> hist[p] # <<>>)
    /\ ~Started(p) => ~Reported(p) /\ hist[p] = <<>>

C9_Independent ==
    /\ [](\A p \in Probes : OwnEventsOnly(p))
    /\ [][\A p, q \in Probes :
            /\ (p # q /\ hist'[q] # hist[q]) =>
                  /\ calls'[p] = calls[p] /\ promise'[p] = promise[p]
                  /\ timer'[p] = timer[p] /\ warns'[p] = warns[p]
                  /\ img'[p] = img[p] /\ hist'[p] = hist[p]
            /\ (~Started(p) /\ Started(p)') =>
                  /\ calls'[p] = <<>> /\ ~Settled(p)' /\ hist'[p] = <<>>
                  /\ warns'[p] = <<>> /\ timer'[p] = NoTimer]_vars

\* C9 witness: two probes on the same url were in flight together; one has
\* reported, the other still has its timer pending and its image loading.
C9_Witness ==
    \E p, q \in Probes :
        /\ p # q /\ url[p] = url[q] /\ op[p] = op[q]
        /\ Reported(p) /\ hist[p] # <<>>
        /\ hist[q] = <<>> /\ timer[q].state = "pending" /\ img[q].state = "loading"

\* C10: when checkImageExists or preloadImage returns, the callback has not been
\* invoked, the promise is pending and nothing was logged, for every timeout;
\* an outcome is reported only by a task run with an empty stack.
C10_ReturnsBeforeOutcome ==
    /\ [](pc.at = "return" =>
            /\ calls[pc.p] = <<>> /\ warns[pc.p] = <<>> /\ hist[pc.p] = <<>>
            /\ IsPreload(pc.p) => promise[pc.p].state = "pending")
    /\ [][(calls' # calls \/ \E p \in Probes : ~Settled(p) /\ Settled(p)') => StackEmpty]_vars

\* C10 witness: preloadImage is returning with a zero-delay timer pending, after
\* an earlier checkImageExists probe with a zero-delay timer reported.
C10_Witness ==
    \E q \in Probes :
        /\ pc.at = "return" /\ IsPreload(pc.p) /\ promise[pc.p].state = "pending"
        /\ timer[pc.p] = [state |-> "pending", remaining |-> 0]
        /\ IsCheck(q) /\ hist[q] = <<"timeout">> /\ calls[q] = <<FALSE>>

LoadStarted(p) == img[p].state \in {"loading", "loaded", "broken"}

\* C11: in both functions, once the load of a probe's image has been started by
\* img.src = url, the timer, img.onload and img.onerror are registered and
\* img.crossOrigin is "anonymous"; so every load or error event finds its handler
\* and no load runs without the anonymous cross-origin mode.
C11_RegisteredBeforeSrc ==
    /\ [](\A p \in Probes : LoadStarted(p) =>
            /\ timer[p].state # "none"
            /\ img[p].onload /\ img[p].onerror
            /\ img[p].crossOrigin = "anonymous"
            /\ img[p].src = url[p])
    /\ [][\A p \in Probes : hist'[p] # hist[p] =>
            /\ img[p].onload /\ img[p].onerror
            /\ img[p].crossOrigin = "anonymous"]_vars

\* C11 witness: a checkImageExists probe whose load event was handled, while
\* preloadImage has just assigned img.src with everything registered.
C11_Witness ==
    \E p \in Probes :
        /\ IsCheck(p) /\ hist[p] = <<"load">> /\ calls[p] = <<TRUE>>
        /\ pc.at = "return" /\ IsPreload(pc.p) /\ img[pc.p].state = "loading"
        /\ img[pc.p].onload /\ img[pc.p].onerror /\ timer[pc.p].state = "pending"
        /\ img[pc.p].crossOrigin = "anonymous"

\* C12: within one checkImageExists probe all values the callback was invoked
\* with agree: never true after false, never false after true.
C12_NoContradiction ==
    \A p \in Probes : IsCheck(p) =>
        \A i, j \in 1..Len(calls[p]) : calls[p][i] = calls[p][j]

====
